---- MODULE Spec2Model ----
(***************************************************************************)
(* Model of the privacy indicator applet: the Activity Aggregator          *)
(* (PrivacyIndicator::update, src/src/applet.rs), the two producer threads *)
(* of PrivacyIndicator::subscription, and the baseline scan and watch      *)
(* table of src/src/camera.rs.                                             *)
(***************************************************************************)
EXTENDS Integers, Sequences, FiniteSets, TLC

(***************************************************************************)
(* Bounds of the model.                                                    *)
(***************************************************************************)
\* largest ref-count a path is driven to
MaxCount == 2
\* deepest debt (negative count) a path is driven to
MaxDebt == 1
\* largest number of descriptors the baseline scan finds on one device
MaxSeed == 2
\* capacity of a producer's channel in the model (the program's is ChannelSize)
ChanCap == 1
\* largest number of descriptors processes hold on one device
MaxHandles == 1
\* longest message sequence of one source in the interleaving runs
MixLen == 2
\* how many things the world outside the applet does in one run
MaxEnvOps == 2

\* channel(100, ...)
ChannelSize == 100

\* the camera device nodes and the PipeWire global ids of the model
Paths == {"/dev/video0", "/dev/video1"}
Ids == {1, 2}

(***************************************************************************)
(* State of PrivacyIndicator (applet.rs:40-47).  `cameras` is the HashMap  *)
(* PathBuf -> (i32, i32): a function whose DOMAIN is the set of keys.      *)
(***************************************************************************)
VARIABLES microphones, screenshares, cameras, shared,
          last, scen, base

(***************************************************************************)
(* Beside the program state, for comparing runs:                           *)
(*   pwSeq, camSeq  the messages update was given so far from the PipeWire *)
(*                  source and from the camera source, each in its order;  *)
(*   ticked         a Tick was processed after the last of them;           *)
(*   specCameras    the ref-count map of an aggregator that is given the   *)
(*                  same messages and closes an absent path to (-1, -1).   *)
(***************************************************************************)
VARIABLES pwSeq, camSeq, ticked, specCameras

(***************************************************************************)
(* The world outside the applet:                                           *)
(*   devs     the camera nodes present in /dev                             *)
(*   handles  per node, the descriptors processes hold open on it          *)
(*   sandbox  /.flatpak-info exists (camera.rs:11)                         *)
(*   globals  the live PipeWire globals, id -> media class                 *)
(*   budget   how many more things the outside world does (model bound)    *)
(*   inoGen, inoQ  the watcher's current inotify instance and the events   *)
(*            queued on it                                                 *)
(* The camera watcher thread (applet.rs:280-347):                          *)
(*   camPc, wd_path, batch (the events of one read still to iterate),      *)
(*   resetTodo (the rest of old_paths.difference(&new_paths)),             *)
(*   rb (old_paths, new_paths of the last rebuild, and the resets sent     *)
(*   for it), camOut (the message in a try_send loop)                      *)
(* The PipeWire thread (applet.rs:216-274): pwOut (the message in a        *)
(* try_send loop).                                                         *)
(* The two channels camChan and pwChan; every message carries, beside it,  *)
(* its serial number in its producer's output (sent / recv count them).    *)
(***************************************************************************)
VARIABLES devs, handles, sandbox, globals, budget, inoGen, inoQ,
          camPc, wd_path, batch, resetTodo, rb, camOut, camChan,
          pwOut, pwChan, sent, recv

aggVars == <<microphones, screenshares, cameras, shared>>
refVars == <<pwSeq, camSeq, ticked, specCameras>>
histVars == <<last, scen, base, pwSeq, camSeq, ticked, specCameras>>
envVars == <<devs, handles, sandbox, globals, budget, inoGen, inoQ>>
camVars == <<camPc, wd_path, batch, resetTodo, rb, camOut, camChan>>
pwVars == <<pwOut, pwChan>>
sysVars == <<devs, handles, sandbox, globals, budget, inoGen, inoQ,
             camPc, wd_path, batch, resetTodo, rb, camOut, camChan,
             pwOut, pwChan, sent, recv>>
vars == <<microphones, screenshares, cameras, shared, last, scen, base,
          pwSeq, camSeq, ticked, specCameras,
          devs, handles, sandbox, globals, budget, inoGen, inoQ,
          camPc, wd_path, batch, resetTodo, rb, camOut, camChan,
          pwOut, pwChan, sent, recv>>

NoCameras == [p \in {} |-> <<0, 0>>]

(***************************************************************************)
(* Message (applet.rs:49-60).  Every message is a record of the same       *)
(* shape; the fields a variant does not carry hold "" / 0 / NoCameras.     *)
(***************************************************************************)
Msg(t, p, i, c) == [type |-> t, path |-> p, id |-> i, cameras |-> c]
Tick == Msg("Tick", "", 0, NoCameras)
RecTick == Msg("RecTick", "", 0, NoCameras)
ScreenShareAddMsg(id) == Msg("ScreenShareAdd", "", id, NoCameras)
MicrophoneAddMsg(id) == Msg("MicrophoneAdd", "", id, NoCameras)
PipeWireNodeRemoveMsg(id) == Msg("PipeWireNodeRemove", "", id, NoCameras)
CameraOpenMsg(path) == Msg("CameraOpen", path, 0, NoCameras)
CameraCloseMsg(path) == Msg("CameraClose", path, 0, NoCameras)
CameraResetMsg(path) == Msg("CameraReset", path, 0, NoCameras)
CameraPreviousMsg(c) == Msg("CameraPrevious", "", 0, c)
NoMsg == Msg("", "", 0, NoCameras)

(***************************************************************************)
(* The arms of update (applet.rs:166-211) as operators on the fields they  *)
(* touch.                                                                  *)
(***************************************************************************)
\* cameras.values().fold(0, |acc, (shares, min)| acc + shares - min)
RECURSIVE CameraFold(_, _)
CameraFold(cams, keys) ==
    IF keys = {} THEN 0
    ELSE LET k == CHOOSE x \in keys : TRUE
         IN  CameraFold(cams, keys \ {k}) + cams[k][1] - cams[k][2]

CameraSumCountsOnly(cams) ==
    LET RECURSIVE F(_)
        F(keys) == IF keys = {} THEN 0
                   ELSE LET k == CHOOSE x \in keys : TRUE
                        IN  F(keys \ {k}) + cams[k][1]
    IN  F(DOMAIN cams)

CameraSum(cams) == CameraFold(cams, DOMAIN cams)

TickSharedSwapped(mics, shares, cams) ==
    [microphone |-> shares # {},
     screenshare |-> mics # {},
     camera |-> CameraSum(cams) > 0]

\* Message::Tick
TickShared(mics, shares, cams) ==
    [microphone |-> mics # {},
     screenshare |-> shares # {},
     camera |-> CameraSum(cams) > 0]

CameraPreviousMerge(cams, snapshot) ==
    [p \in DOMAIN cams \cup DOMAIN snapshot |->
        IF p \in DOMAIN cams THEN cams[p] ELSE snapshot[p]]

\* Message::CameraPrevious(cameras) => self.cameras = cameras
CameraPrevious(cams, snapshot) == snapshot

\* Message::CameraOpen: entry(path).and_modify(|v| v.0 += 1).or_insert((1, 0))
CameraOpen(cams, path) ==
    IF path \in DOMAIN cams
    THEN [cams EXCEPT ![path] = <<@[1] + 1, @[2]>>]
    ELSE [p \in DOMAIN cams \cup {path} |->
            IF p = path THEN <<1, 0>> ELSE cams[p]]

Min(a, b) == IF a <= b THEN a ELSE b

CameraCloseNoFloor(cams, path) ==
    IF path \in DOMAIN cams
    THEN [cams EXCEPT ![path] = <<@[1] - 1, @[2]>>]
    ELSE [p \in DOMAIN cams \cup {path} |->
            IF p = path THEN <<0, 0>> ELSE cams[p]]

\* a close that drops the entry when its count comes back to 0
CameraCloseRemoves(cams, path) ==
    IF path \in DOMAIN cams
    THEN IF cams[path][1] - 1 = 0
         THEN [p \in DOMAIN cams \ {path} |-> cams[p]]
         ELSE [cams EXCEPT ![path] = <<@[1] - 1, Min(@[2], @[1] - 1)>>]
    ELSE [p \in DOMAIN cams \cup {path} |->
            IF p = path THEN <<0, 0>> ELSE cams[p]]

\* a close whose or_insert is the one of the open arm
CameraCloseAbsentOne(cams, path) ==
    IF path \in DOMAIN cams
    THEN [cams EXCEPT ![path] = <<@[1] - 1, Min(@[2], @[1] - 1)>>]
    ELSE [p \in DOMAIN cams \cup {path} |->
            IF p = path THEN <<1, 0>> ELSE cams[p]]

CameraCloseAbsentDebt(cams, path) ==
    IF path \in DOMAIN cams
    THEN [cams EXCEPT ![path] = <<@[1] - 1, Min(@[2], @[1] - 1)>>]
    ELSE [p \in DOMAIN cams \cup {path} |->
            IF p = path THEN <<-1, 0>> ELSE cams[p]]

\* Message::CameraClose: entry(path)
\*   .and_modify(|v| { v.0 -= 1; v.1 = v.1.min(v.0); }).or_insert((0, 0))
CameraClose(cams, path) ==
    IF path \in DOMAIN cams
    THEN [cams EXCEPT ![path] = <<@[1] - 1, Min(@[2], @[1] - 1)>>]
    ELSE [p \in DOMAIN cams \cup {path} |->
            IF p = path THEN <<0, 0>> ELSE cams[p]]

CameraResetZero(cams, path) ==
    IF path \in DOMAIN cams
    THEN [cams EXCEPT ![path] = <<0, @[2]>>]
    ELSE cams

\* Message::CameraReset: self.cameras.remove(&path)
CameraReset(cams, path) == [p \in DOMAIN cams \ {path} |-> cams[p]]

\* Message::ScreenShareAdd: self.screenshares.insert(id)
ScreenShareAdd(set, id) == set \cup {id}

MicrophoneAddToggle(set, id) ==
    IF id \in set THEN set \ {id} ELSE set \cup {id}

\* Message::MicrophoneAdd: self.microphones.insert(id)
MicrophoneAdd(set, id) == set \cup {id}

\* a remove that leaves the sets as they are
PipeWireNodeRemoveKeeps(set, id) == set

\* Message::PipeWireNodeRemove: self.{screenshares,microphones}.remove(&id)
PipeWireNodeRemove(set, id) == set \ {id}

\* an update whose Tick arm empties the two sets it has just published
updateTickDrains(message) ==
    CASE message.type = "Tick" ->
            /\ shared' = TickShared(microphones, screenshares, cameras)
            /\ microphones' = {}
            /\ screenshares' = {}
            /\ UNCHANGED cameras
      [] message.type = "CameraPrevious" ->
            /\ cameras' = CameraPrevious(cameras, message.cameras)
            /\ UNCHANGED <<microphones, screenshares, shared>>
      [] message.type = "CameraOpen" ->
            /\ cameras' = CameraOpen(cameras, message.path)
            /\ UNCHANGED <<microphones, screenshares, shared>>
      [] message.type = "CameraClose" ->
            /\ cameras' = CameraClose(cameras, message.path)
            /\ UNCHANGED <<microphones, screenshares, shared>>
      [] message.type = "CameraReset" ->
            /\ cameras' = CameraReset(cameras, message.path)
            /\ UNCHANGED <<microphones, screenshares, shared>>
      [] message.type = "ScreenShareAdd" ->
            /\ screenshares' = ScreenShareAdd(screenshares, message.id)
            /\ UNCHANGED <<microphones, cameras, shared>>
      [] message.type = "MicrophoneAdd" ->
            /\ microphones' = MicrophoneAdd(microphones, message.id)
            /\ UNCHANGED <<screenshares, cameras, shared>>
      [] message.type = "PipeWireNodeRemove" ->
            /\ screenshares' = PipeWireNodeRemove(screenshares, message.id)
            /\ microphones' = PipeWireNodeRemove(microphones, message.id)
            /\ UNCHANGED <<cameras, shared>>
      [] message.type = "RecTick" ->
            UNCHANGED <<microphones, screenshares, cameras, shared>>

(***************************************************************************)
(* update(&mut self, message): one message applied to the aggregator.      *)
(* RecTick only advances the animation timeline, which is not part of the  *)
(* activity state.                                                         *)
(***************************************************************************)
update(message) ==
    CASE message.type = "Tick" ->
            /\ shared' = TickShared(microphones, screenshares, cameras)
            /\ UNCHANGED <<microphones, screenshares, cameras>>
      [] message.type = "CameraPrevious" ->
            /\ cameras' = CameraPrevious(cameras, message.cameras)
            /\ UNCHANGED <<microphones, screenshares, shared>>
      [] message.type = "CameraOpen" ->
            /\ cameras' = CameraOpen(cameras, message.path)
            /\ UNCHANGED <<microphones, screenshares, shared>>
      [] message.type = "CameraClose" ->
            /\ cameras' = CameraClose(cameras, message.path)
            /\ UNCHANGED <<microphones, screenshares, shared>>
      [] message.type = "CameraReset" ->
            /\ cameras' = CameraReset(cameras, message.path)
            /\ UNCHANGED <<microphones, screenshares, shared>>
      [] message.type = "ScreenShareAdd" ->
            /\ screenshares' = ScreenShareAdd(screenshares, message.id)
            /\ UNCHANGED <<microphones, cameras, shared>>
      [] message.type = "MicrophoneAdd" ->
            /\ microphones' = MicrophoneAdd(microphones, message.id)
            /\ UNCHANGED <<screenshares, cameras, shared>>
      [] message.type = "PipeWireNodeRemove" ->
            /\ screenshares' = PipeWireNodeRemove(screenshares, message.id)
            /\ microphones' = PipeWireNodeRemove(microphones, message.id)
            /\ UNCHANGED <<cameras, shared>>
      [] message.type = "RecTick" ->
            UNCHANGED <<microphones, screenshares, cameras, shared>>

(***************************************************************************)
(* History kept beside the program state, for stating the properties:      *)
(*   last  the last message update processed other than RecTick, with      *)
(*         prev = the type of the message before it when that one carried  *)
(*         the same path and id ("" otherwise);                            *)
(*   scen  how many camera messages of Script have been processed, in      *)
(*         order and with no other camera message, since the map was last  *)
(*         known empty (-1: off the script);                               *)
(*   base  the baseline run: snap is the snapshot of the last              *)
(*         CameraPrevious and the only camera messages since were k        *)
(*         CameraClose of `path` (k = -1: some other camera message came). *)
(***************************************************************************)
NoLast == [type |-> "", path |-> "", id |-> 0, prev |-> ""]
NoBase == [snap |-> NoCameras, path |-> "", k |-> -1]

Script == << <<"CameraOpen", "/dev/video0">>, <<"CameraOpen", "/dev/video1">>,
             <<"CameraClose", "/dev/video0">>, <<"CameraReset", "/dev/video1">>,
             <<"CameraClose", "/dev/video0">> >>

CameraTypes == {"CameraOpen", "CameraClose", "CameraReset"}

Record(message) ==
    /\ last' = IF message.type = "RecTick" THEN last
               ELSE [type |-> message.type, path |-> message.path,
                     id |-> message.id,
                     prev |-> IF last.path = message.path /\ last.id = message.id
                              THEN last.type ELSE ""]
    /\ scen' = CASE message.type = "CameraPrevious" ->
                        IF DOMAIN message.cameras = {} THEN 0 ELSE -1
                 [] message.type \in CameraTypes ->
                        IF /\ scen >= 0
                           /\ scen < Len(Script)
                           /\ Script[scen + 1] = <<message.type, message.path>>
                        THEN scen + 1 ELSE -1
                 [] OTHER -> scen
    /\ base' = CASE message.type = "CameraPrevious" ->
                        [snap |-> message.cameras, path |-> "", k |-> 0]
                 [] message.type = "CameraClose" ->
                        IF base.k >= 0 /\ base.path \in {"", message.path}
                        THEN [base EXCEPT !.path = message.path, !.k = @ + 1]
                        ELSE NoBase
                 [] message.type \in {"CameraOpen", "CameraReset"} -> NoBase
                 [] OTHER -> base

(***************************************************************************)
(* camera.rs.                                                              *)
(***************************************************************************)
\* open_cameras(): one entry (n, 0) per camera path that n descriptors of
\* any process point to; the empty map inside a sandbox.
open_cameras ==
    IF sandbox THEN NoCameras
    ELSE [p \in {q \in Paths : handles[q] > 0} |-> <<handles[p], 0>>]

\* A WatchDescriptor: the inotify instance it belongs to and the kernel's
\* number in it.  Two descriptors are equal when both agree.
NoWatches == [p \in {} |-> [gen |-> 0, id |-> 0]]
DirWd(gen) == [gen |-> gen, id |-> 1]
DevId(path) == IF path = "/dev/video0" THEN 2 ELSE 3
DevWd(gen, path) == [gen |-> gen, id |-> DevId(path)]

\* get_inotify(): a fresh instance watching /dev and every video* entry of
\* /dev whose watch could be added (`ok`); the table maps path <-> wd.
get_inotify(gen, ok) == [p \in ok |-> DevWd(gen, p)]

\* a watch that cannot be added (camera.rs:61-66) is something the outside
\* world does: it is charged to the budget
WatchCost(ok) == IF ok = devs THEN 0 ELSE 1

\* wd_path.get_by_right(&wd)
GetByRight(table, wd) == {p \in DOMAIN table : table[p] = wd}

\* event.name...starts_with("video")
IsCameraName(name) == name \in Paths

(***************************************************************************)
(* The kernel side of inotify: an event is queued on the current instance  *)
(* when the node it is about is watched by it.                             *)
(***************************************************************************)
Event(mask, wd, name) == [mask |-> mask, wd |-> wd, name |-> name]

Notify(path, mask) ==
    IF path \in DOMAIN wd_path
    THEN Append(inoQ, Event(mask, wd_path[path], ""))
    ELSE inoQ

\* a process opens a camera node
ProcOpen ==
    \E p \in devs :
        /\ budget > 0
        /\ handles[p] < MaxHandles
        /\ handles' = [handles EXCEPT ![p] = @ + 1]
        /\ inoQ' = Notify(p, "OPEN")
        /\ budget' = budget - 1
        /\ UNCHANGED <<devs, sandbox, globals, inoGen>>
        /\ UNCHANGED <<aggVars, histVars, camVars, pwVars, sent, recv>>

\* a process closes a descriptor it holds on a camera node
ProcClose ==
    \E p \in Paths, mask \in {"CLOSE_WRITE", "CLOSE_NOWRITE"} :
        /\ budget > 0
        /\ handles[p] > 0
        /\ handles' = [handles EXCEPT ![p] = @ - 1]
        /\ inoQ' = Notify(p, mask)
        /\ budget' = budget - 1
        /\ UNCHANGED <<devs, sandbox, globals, inoGen>>
        /\ UNCHANGED <<aggVars, histVars, camVars, pwVars, sent, recv>>

\* a camera node appears in /dev (IN_CREATE, which the /dev watch of
\* camera.rs:54 does not ask for)
DevAdd ==
    \E p \in Paths \ devs :
        /\ budget > 0
        /\ devs' = devs \cup {p}
        /\ budget' = budget - 1
        /\ UNCHANGED <<handles, sandbox, globals, inoGen, inoQ>>
        /\ UNCHANGED <<aggVars, histVars, camVars, pwVars, sent, recv>>

\* the attributes of an entry of /dev change (udev's chmod / chown of a new
\* node, or of some node that is no camera): IN_ATTRIB on the /dev watch
DevAttrib ==
    \E name \in devs \cup {"/dev/null"} :
        /\ budget > 0
        /\ inoGen > 0
        /\ inoQ' = Append(inoQ, Event("ATTRIB", DirWd(inoGen), name))
        /\ budget' = budget - 1
        /\ UNCHANGED <<devs, handles, sandbox, globals, inoGen>>
        /\ UNCHANGED <<aggVars, histVars, camVars, pwVars, sent, recv>>

\* a camera node nobody holds open is removed: IN_DELETE_SELF, then
\* IN_IGNORED, on its own watch
DevRemove ==
    \E p \in devs :
        /\ budget > 0
        /\ handles[p] = 0
        /\ devs' = devs \ {p}
        /\ inoQ' = IF p \in DOMAIN wd_path
                   THEN inoQ \o << Event("DELETE_SELF", wd_path[p], ""),
                                   Event("IGNORED", wd_path[p], "") >>
                   ELSE inoQ
        /\ budget' = budget - 1
        /\ UNCHANGED <<handles, sandbox, globals, inoGen>>
        /\ UNCHANGED <<aggVars, histVars, camVars, pwVars, sent, recv>>

(***************************************************************************)
(* try_send in a `while ... .is_err()` loop (applet.rs:240-247, 252-259,   *)
(* 268-270, 282-287, 312-317, 324-329, 335-340).                           *)
(***************************************************************************)
Full(chan) == Len(chan) >= ChanCap

\* what a successful try_send does to the channel
Enqueue(chan, item) == Append(chan, item)

(***************************************************************************)
(* The camera watcher thread.                                              *)
(***************************************************************************)
NoRebuild == [old |-> {}, new |-> {}, sent |-> [p \in Paths |-> 0]]

\* the thread starts a try_send loop on `message`
CamStartSend(message) ==
    /\ camOut' = message
    /\ sent' = [sent EXCEPT !.cam = @ + 1]

\* a watcher that goes on to the watches without sending the baseline
WatcherScanSilent ==
    /\ camPc = "scan"
    /\ camPc' = "attach"
    /\ UNCHANGED <<wd_path, batch, resetTodo, rb, camOut, camChan>>
    /\ UNCHANGED <<aggVars, histVars, envVars, pwVars, sent, recv>>

\* let open_cameras = open_cameras(); then the loop sending CameraPrevious
WatcherScan ==
    /\ camPc = "scan"
    /\ CamStartSend(CameraPreviousMsg(open_cameras))
    /\ camPc' = "attach"
    /\ UNCHANGED <<wd_path, batch, resetTodo, rb, camChan>>
    /\ UNCHANGED <<aggVars, histVars, envVars, pwVars, recv>>

\* one try_send that succeeds
CamTrySend ==
    /\ camOut # NoMsg
    /\ ~Full(camChan)
    /\ camChan' = Enqueue(camChan, [msg |-> camOut, seq |-> sent.cam])
    /\ camOut' = NoMsg
    /\ rb' = IF camOut.type = "CameraReset"
             THEN [rb EXCEPT !.sent[camOut.path] = @ + 1]
             ELSE rb
    /\ UNCHANGED <<camPc, wd_path, batch, resetTodo>>
    /\ UNCHANGED <<aggVars, histVars, envVars, pwVars, sent, recv>>

\* a sender that gives the message up when the channel is full
CamSendFullDrop ==
    /\ camOut # NoMsg
    /\ Full(camChan)
    /\ camOut' = NoMsg
    /\ UNCHANGED <<camPc, wd_path, batch, resetTodo, rb, camChan>>
    /\ UNCHANGED <<aggVars, histVars, envVars, pwVars, sent, recv>>

\* one try_send that finds the channel full: eprintln!, and again
CamSendFull ==
    /\ camOut # NoMsg
    /\ Full(camChan)
    /\ UNCHANGED vars

\* let (mut inotify, mut wd_path) = get_inotify();
WatcherAttach ==
    \E ok \in SUBSET devs :
        /\ camPc = "attach"
        /\ camOut = NoMsg
        /\ budget >= WatchCost(ok)
        /\ budget' = budget - WatchCost(ok)
        /\ inoGen' = inoGen + 1
        /\ inoQ' = <<>>
        /\ wd_path' = get_inotify(inoGen + 1, ok)
        /\ camPc' = "loop"
        /\ UNCHANGED <<batch, resetTodo, rb, camOut, camChan>>
        /\ UNCHANGED <<devs, handles, sandbox, globals>>
        /\ UNCHANGED <<aggVars, histVars, pwVars, sent, recv>>

\* the thread is between two events of the `for`, or between two reads
CamIdle == camPc = "loop" /\ camOut = NoMsg /\ resetTodo = {}

\* inotify.read_events_blocking(&mut event_buffer)
WatcherRead ==
    /\ CamIdle
    /\ batch = <<>>
    /\ inoQ # <<>>
    /\ batch' = inoQ
    /\ inoQ' = <<>>
    /\ UNCHANGED <<camPc, wd_path, resetTodo, rb, camOut, camChan>>
    /\ UNCHANGED <<devs, handles, sandbox, globals, budget, inoGen>>
    /\ UNCHANGED <<aggVars, histVars, pwVars, sent, recv>>

\* a rebuild that resets every path of the old table
RebuildResetsAllOld(old_paths, new_paths) == old_paths

\* old_paths.difference(&new_paths)
RebuildResets(old_paths, new_paths) == old_paths \ new_paths

\* EventMask::CREATE | ATTRIB | DELETE_SELF that passes the filter of
\* applet.rs:298-304: the watch set is rebuilt
WatcherRebuild ==
    \E ok \in SUBSET devs :
        /\ CamIdle
        /\ batch # <<>>
        /\ Head(batch).mask \in {"CREATE", "ATTRIB", "DELETE_SELF"}
        /\ Head(batch).mask = "DELETE_SELF" \/ IsCameraName(Head(batch).name)
        /\ batch' = Tail(batch)
        /\ budget >= WatchCost(ok)
        /\ budget' = budget - WatchCost(ok)
        /\ inoGen' = inoGen + 1
        /\ inoQ' = <<>>
        /\ wd_path' = get_inotify(inoGen + 1, ok)
        /\ resetTodo' = RebuildResets(DOMAIN wd_path, ok)
        /\ rb' = [old |-> DOMAIN wd_path, new |-> ok,
                  sent |-> [p \in Paths |-> 0]]
        /\ UNCHANGED <<camPc, camOut, camChan>>
        /\ UNCHANGED <<devs, handles, sandbox, globals>>
        /\ UNCHANGED <<aggVars, histVars, pwVars, sent, recv>>

\* for &path in old_paths.difference(&new_paths): the loop sending
\* CameraReset(path)
WatcherReset ==
    \E path \in resetTodo :
        /\ camPc = "loop"
        /\ camOut = NoMsg
        /\ resetTodo' = resetTodo \ {path}
        /\ CamStartSend(CameraResetMsg(path))
        /\ UNCHANGED <<camPc, wd_path, batch, rb, camChan>>
        /\ UNCHANGED <<aggVars, histVars, envVars, pwVars, recv>>

\* EventMask::OPEN, CLOSE_WRITE or CLOSE_NOWRITE of a descriptor the table
\* knows: the loop sending CameraOpen / CameraClose
WatcherOpenClose ==
    /\ CamIdle
    /\ batch # <<>>
    /\ Head(batch).mask \in {"OPEN", "CLOSE_WRITE", "CLOSE_NOWRITE"}
    /\ \E path \in GetByRight(wd_path, Head(batch).wd) :
          CamStartSend(IF Head(batch).mask = "OPEN"
                       THEN CameraOpenMsg(path) ELSE CameraCloseMsg(path))
    /\ batch' = Tail(batch)
    /\ UNCHANGED <<camPc, wd_path, resetTodo, rb, camChan>>
    /\ UNCHANGED <<aggVars, histVars, envVars, pwVars, recv>>

\* every other event: a /dev event that does not pass the filter, an
\* open / close of a descriptor the table does not know, `_ => continue`
WatcherSkip ==
    /\ CamIdle
    /\ batch # <<>>
    /\ \/ /\ Head(batch).mask \in {"CREATE", "ATTRIB"}
          /\ ~IsCameraName(Head(batch).name)
       \/ /\ Head(batch).mask \in {"OPEN", "CLOSE_WRITE", "CLOSE_NOWRITE"}
          /\ GetByRight(wd_path, Head(batch).wd) = {}
       \/ Head(batch).mask = "IGNORED"
    /\ batch' = Tail(batch)
    /\ UNCHANGED <<camPc, wd_path, resetTodo, rb, camOut, camChan>>
    /\ UNCHANGED <<aggVars, histVars, envVars, pwVars, sent, recv>>

(***************************************************************************)
(* The PipeWire thread: the registry listeners run on the main loop, one   *)
(* callback at a time.                                                     *)
(***************************************************************************)
NoGlobals == [i \in {} |-> ""]
MediaClasses == {"Stream/Input/Video", "Stream/Input/Audio", "Audio/Sink"}

PwStartSend(message) ==
    /\ pwOut' = message
    /\ sent' = [sent EXCEPT !.pw = @ + 1]

\* .global(...): a node of class Stream/Input/Video or Stream/Input/Audio
\* starts the loop sending ScreenShareAdd / MicrophoneAdd; anything else
\* (Audio/Sink stands for every other global) is ignored
PwGlobal ==
    \E id \in Ids \ DOMAIN globals, class \in MediaClasses :
        /\ budget > 0
        /\ pwOut = NoMsg
        /\ globals' = [i \in DOMAIN globals \cup {id} |->
                          IF i = id THEN class ELSE globals[i]]
        /\ budget' = budget - 1
        /\ CASE class = "Stream/Input/Video" ->
                    PwStartSend(ScreenShareAddMsg(id))
             [] class = "Stream/Input/Audio" ->
                    PwStartSend(MicrophoneAddMsg(id))
             [] OTHER -> UNCHANGED <<pwOut, sent>>
        /\ UNCHANGED <<devs, handles, sandbox, inoGen, inoQ, pwChan, recv>>
        /\ UNCHANGED <<aggVars, histVars, camVars>>

\* the daemon announces a global it has announced before (delivery is at
\* least once): the listener sends the add again
PwGlobalRepeat ==
    \E id \in DOMAIN globals :
        /\ budget > 0
        /\ pwOut = NoMsg
        /\ budget' = budget - 1
        /\ CASE globals[id] = "Stream/Input/Video" ->
                    PwStartSend(ScreenShareAddMsg(id))
             [] globals[id] = "Stream/Input/Audio" ->
                    PwStartSend(MicrophoneAddMsg(id))
             [] OTHER -> UNCHANGED <<pwOut, sent>>
        /\ UNCHANGED <<devs, handles, sandbox, globals, inoGen, inoQ>>
        /\ UNCHANGED <<pwChan, recv>>
        /\ UNCHANGED <<aggVars, histVars, camVars>>

\* .global_remove(...): the loop sending PipeWireNodeRemove(id)
PwGlobalRemove ==
    \E id \in DOMAIN globals :
        /\ budget > 0
        /\ pwOut = NoMsg
        /\ globals' = [i \in DOMAIN globals \ {id} |-> globals[i]]
        /\ budget' = budget - 1
        /\ PwStartSend(PipeWireNodeRemoveMsg(id))
        /\ UNCHANGED <<devs, handles, sandbox, inoGen, inoQ, pwChan, recv>>
        /\ UNCHANGED <<aggVars, histVars, camVars>>

\* one try_send that succeeds
PwTrySend ==
    /\ pwOut # NoMsg
    /\ ~Full(pwChan)
    /\ pwChan' = Enqueue(pwChan, [msg |-> pwOut, seq |-> sent.pw])
    /\ pwOut' = NoMsg
    /\ UNCHANGED <<aggVars, histVars, envVars, camVars, sent, recv>>

\* one try_send that finds the channel full: eprintln!, and again
PwSendFull ==
    /\ pwOut # NoMsg
    /\ Full(pwChan)
    /\ UNCHANGED vars

(***************************************************************************)
(* The runtime hands update what the subscriptions yield (applet.rs:355):  *)
(* the heads of the two channels and the two timers.                       *)
(***************************************************************************)
DeliverCam ==
    /\ camChan # <<>>
    /\ update(Head(camChan).msg)
    /\ camChan' = Tail(camChan)
    /\ recv' = [recv EXCEPT !.cam = @ + 1]
    /\ UNCHANGED <<camPc, wd_path, batch, resetTodo, rb, camOut>>
    /\ UNCHANGED <<histVars, envVars, pwVars, sent>>

DeliverPw ==
    /\ pwChan # <<>>
    /\ update(Head(pwChan).msg)
    /\ pwChan' = Tail(pwChan)
    /\ recv' = [recv EXCEPT !.pw = @ + 1]
    /\ UNCHANGED <<pwOut>>
    /\ UNCHANGED <<histVars, envVars, camVars, sent>>

TimerTick == update(Tick) /\ UNCHANGED <<histVars, sysVars>>

TimerRecTick == update(RecTick) /\ UNCHANGED <<histVars, sysVars>>

Init ==
    /\ microphones = {}
    /\ screenshares = {}
    /\ cameras = NoCameras
    /\ shared = [microphone |-> FALSE, screenshare |-> FALSE, camera |-> FALSE]
    /\ last = NoLast
    /\ scen = 0
    /\ base = NoBase
    /\ pwSeq = <<>>
    /\ camSeq = <<>>
    /\ ticked = FALSE
    /\ specCameras = NoCameras
    /\ devs \in SUBSET Paths
    /\ handles \in [Paths -> 0..MaxHandles]
    /\ \A p \in Paths : handles[p] > 0 => p \in devs
    /\ sandbox \in BOOLEAN
    /\ globals = NoGlobals
    /\ budget = MaxEnvOps
    /\ inoGen = 0
    /\ inoQ = <<>>
    /\ camPc = "scan"
    /\ wd_path = NoWatches
    /\ batch = <<>>
    /\ resetTodo = {}
    /\ rb = NoRebuild
    /\ camOut = NoMsg
    /\ camChan = <<>>
    /\ pwOut = NoMsg
    /\ pwChan = <<>>
    /\ sent = [cam |-> 0, pw |-> 0]
    /\ recv = [cam |-> 0, pw |-> 0]

Next ==
    \/ ProcOpen
    \/ ProcClose
    \/ DevAdd
    \/ DevAttrib
    \/ DevRemove
    \/ WatcherScan
    \/ CamTrySend
    \/ CamSendFull
    \/ WatcherAttach
    \/ WatcherRead
    \/ WatcherRebuild
    \/ WatcherReset
    \/ WatcherOpenClose
    \/ WatcherSkip
    \/ PwGlobal
    \/ PwGlobalRepeat
    \/ PwGlobalRemove
    \/ PwTrySend
    \/ PwSendFull
    \/ DeliverCam
    \/ DeliverPw
    \/ TimerTick
    \/ TimerRecTick

Spec == Init /\ [][Next]_vars

\* The threads keep running: the runtime keeps draining the channels and a
\* producer in a try_send loop keeps trying.  The runs start with both
\* camera nodes present and closed, outside a sandbox.
InitFair ==
    /\ Init
    /\ devs = Paths
    /\ handles = [p \in Paths |-> 0]
    /\ ~sandbox

FairSpec ==
    /\ InitFair
    /\ [][Next]_vars
    /\ WF_vars(DeliverCam)
    /\ WF_vars(DeliverPw)
    /\ WF_vars(CamTrySend)
    /\ WF_vars(PwTrySend)

(***************************************************************************)
(* The aggregator on its own, fed any message in any order.                *)
(***************************************************************************)
\* the snapshots open_cameras can return: (n, 0) with n >= 1 per open device
Snapshots ==
    UNION {[S -> {<<n, 0>> : n \in 1..MaxSeed}] : S \in SUBSET Paths}

\* keeps the ref-counts within the bounds of the model
InRange(message) ==
    CASE message.type = "CameraOpen" ->
            message.path \in DOMAIN cameras => cameras[message.path][1] < MaxCount
      [] message.type = "CameraClose" ->
            message.path \in DOMAIN cameras => cameras[message.path][1] > -MaxDebt
      [] OTHER -> TRUE

Process(message) ==
    /\ InRange(message)
    /\ update(message)
    /\ Record(message)
    /\ UNCHANGED refVars
    /\ UNCHANGED sysVars

InitAgg ==
    /\ microphones = {}
    /\ screenshares = {}
    /\ cameras = NoCameras
    /\ shared = [microphone |-> FALSE, screenshare |-> FALSE, camera |-> FALSE]
    /\ last = NoLast
    /\ scen = 0
    /\ base = NoBase
    /\ pwSeq = <<>>
    /\ camSeq = <<>>
    /\ ticked = FALSE
    /\ specCameras = NoCameras
    /\ devs = {}
    /\ handles = [p \in Paths |-> 0]
    /\ sandbox = FALSE
    /\ globals = NoGlobals
    /\ budget = 0
    /\ inoGen = 0
    /\ inoQ = <<>>
    /\ camPc = "scan"
    /\ wd_path = NoWatches
    /\ batch = <<>>
    /\ resetTodo = {}
    /\ rb = NoRebuild
    /\ camOut = NoMsg
    /\ camChan = <<>>
    /\ pwOut = NoMsg
    /\ pwChan = <<>>
    /\ sent = [cam |-> 0, pw |-> 0]
    /\ recv = [cam |-> 0, pw |-> 0]

AggTick == Process(Tick)
AggRecTick == Process(RecTick)
AggScreenShareAdd == \E id \in Ids : Process(ScreenShareAddMsg(id))
AggMicrophoneAdd == \E id \in Ids : Process(MicrophoneAddMsg(id))
AggPipeWireNodeRemove == \E id \in Ids : Process(PipeWireNodeRemoveMsg(id))
AggCameraOpen == \E path \in Paths : Process(CameraOpenMsg(path))
AggCameraClose == \E path \in Paths : Process(CameraCloseMsg(path))
AggCameraReset == \E path \in Paths : Process(CameraResetMsg(path))
AggCameraPrevious == \E c \in Snapshots : Process(CameraPreviousMsg(c))

NextAgg ==
    \/ AggTick
    \/ AggRecTick
    \/ AggScreenShareAdd
    \/ AggMicrophoneAdd
    \/ AggPipeWireNodeRemove
    \/ AggCameraOpen
    \/ AggCameraClose
    \/ AggCameraReset
    \/ AggCameraPrevious

SpecAgg == InitAgg /\ [][NextAgg]_vars

(***************************************************************************)
(* The aggregator fed by two sources and the tick timer, in any            *)
(* interleaving; what each source has sent is kept in pwSeq and camSeq.    *)
(***************************************************************************)
PwMessages ==
    {MicrophoneAddMsg(id) : id \in Ids}
        \cup {ScreenShareAddMsg(id) : id \in Ids}
        \cup {PipeWireNodeRemoveMsg(id) : id \in Ids}

\* the snapshots of the interleaving runs: one descriptor per open device
MixSnapshots == {c \in Snapshots : \A p \in DOMAIN c : c[p] = <<1, 0>>}

CamMessages ==
    {CameraOpenMsg(path) : path \in Paths}
        \cup {CameraCloseMsg(path) : path \in Paths}
        \cup {CameraResetMsg(path) : path \in Paths}
        \cup {CameraPreviousMsg(c) : c \in MixSnapshots}

InitMix == InitAgg

MixPw ==
    \E message \in PwMessages :
        /\ Len(pwSeq) < MixLen
        /\ update(message)
        /\ pwSeq' = Append(pwSeq, message)
        /\ ticked' = FALSE
        /\ UNCHANGED <<last, scen, base, camSeq, specCameras>>
        /\ UNCHANGED sysVars

MixCam ==
    \E message \in CamMessages :
        /\ Len(camSeq) < MixLen
        /\ update(message)
        /\ camSeq' = Append(camSeq, message)
        /\ ticked' = FALSE
        /\ UNCHANGED <<last, scen, base, pwSeq, specCameras>>
        /\ UNCHANGED sysVars

MixTick ==
    /\ update(Tick)
    /\ ticked' = TRUE
    /\ UNCHANGED <<last, scen, base, pwSeq, camSeq, specCameras>>
    /\ UNCHANGED sysVars

NextMix ==
    \/ MixPw
    \/ MixCam
    \/ MixTick

SpecMix == InitMix /\ [][NextMix]_vars

(***************************************************************************)
(* The aggregator and, beside it, one that closes an absent path to        *)
(* (-1, -1), both given the same camera messages.                          *)
(***************************************************************************)
\* the close rule as specified: create (0, 0), then apply the decrement
CameraCloseSpecified(cams, path) ==
    IF path \in DOMAIN cams
    THEN [cams EXCEPT ![path] = <<@[1] - 1, Min(@[2], @[1] - 1)>>]
    ELSE [p \in DOMAIN cams \cup {path} |->
            IF p = path THEN <<-1, -1>> ELSE cams[p]]

SpecifiedCameras(cams, message) ==
    CASE message.type = "CameraPrevious" -> message.cameras
      [] message.type = "CameraOpen" -> CameraOpen(cams, message.path)
      [] message.type = "CameraClose" -> CameraCloseSpecified(cams, message.path)
      [] message.type = "CameraReset" -> CameraReset(cams, message.path)
      [] OTHER -> cams

PairStep(message) ==
    /\ InRange(message)
    /\ update(message)
    /\ specCameras' = SpecifiedCameras(specCameras, message)
    /\ UNCHANGED <<last, scen, base, pwSeq, camSeq, ticked>>
    /\ UNCHANGED sysVars

InitPair == InitAgg

PairTick == PairStep(Tick)
PairCameraOpen == \E path \in Paths : PairStep(CameraOpenMsg(path))
PairCameraClose == \E path \in Paths : PairStep(CameraCloseMsg(path))
PairCameraReset == \E path \in Paths : PairStep(CameraResetMsg(path))
PairCameraPrevious == \E c \in Snapshots : PairStep(CameraPreviousMsg(c))

NextPair ==
    \/ PairTick
    \/ PairCameraOpen
    \/ PairCameraClose
    \/ PairCameraReset
    \/ PairCameraPrevious

SpecPair == InitPair /\ [][NextPair]_vars

(***************************************************************************)
(* Properties.                                                             *)
(***************************************************************************)
\* the step is update processing `message`
Handled(message) ==
    /\ last'.type = message.type
    /\ update(message)
    /\ Record(message)

\* what a path adds to the activity sum: count - floor, 0 without an entry
Contribution(cams, path) ==
    IF path \in DOMAIN cams THEN cams[path][1] - cams[path][2] ELSE 0

RECURSIVE SumOver(_, _)
SumOver(cams, ps) ==
    IF ps = {} THEN 0
    ELSE LET q == CHOOSE x \in ps : TRUE
         IN  Contribution(cams, q) + SumOver(cams, ps \ {q})

\* C1: every entry (count, floor) of the cameras map has count - floor >= 0.
RefCountInvariant ==
    \A p \in DOMAIN cameras : cameras[p][1] - cameras[p][2] >= 0

\* a path in debt: more closes than opens were seen and the floor absorbed them
RefCountWitness ==
    \E p \in DOMAIN cameras :
        cameras[p][1] < 0 /\ cameras[p][1] = cameras[p][2] /\ base.k < 0

\* C3 as stated: once messages are processed, the exposed flags equal
\* "the respective set is non-empty".
FlagsFollowSets ==
    /\ shared.microphone = (microphones # {})
    /\ shared.screenshare = (screenshares # {})

\* C3 amended: the exposed flags equal "the respective set is non-empty"
\* once a Tick has been processed after the add / remove messages.
FlagsFollowSetsAtTick ==
    last.type = "Tick" =>
        /\ shared.microphone = (microphones # {})
        /\ shared.screenshare = (screenshares # {})

FlagsAtTickWitness ==
    /\ last.type = "Tick"
    /\ microphones = {1}
    /\ screenshares = {}
    /\ shared.microphone
    /\ ~shared.screenshare

\* C4: Tick sets the snapshot to (microphones non-empty, screenshares
\* non-empty, sum of count - floor > 0) and changes nothing else.
TickRecomputes ==
    [][Handled(Tick) =>
        /\ shared'.microphone = (microphones # {})
        /\ shared'.screenshare = (screenshares # {})
        /\ shared'.camera = (SumOver(cameras, Paths) > 0)
        /\ UNCHANGED <<microphones, screenshares, cameras>>]_vars

\* a Tick published camera = TRUE from an entry whose count is not positive
TickWitness ==
    /\ last.type = "Tick"
    /\ shared.camera
    /\ \A p \in DOMAIN cameras : cameras[p][1] <= 0

\* C5: a second identical add leaves the sets as the first left them, and a
\* remove of an id in neither set changes nothing.
AddRemoveIdempotent ==
    [][/\ (/\ last'.type = "MicrophoneAdd"
           /\ Handled(MicrophoneAddMsg(last'.id))
           /\ last.type = "MicrophoneAdd"
           /\ last.id = last'.id)
         => UNCHANGED <<microphones, screenshares>>
       /\ (/\ last'.type = "ScreenShareAdd"
           /\ Handled(ScreenShareAddMsg(last'.id))
           /\ last.type = "ScreenShareAdd"
           /\ last.id = last'.id)
         => UNCHANGED <<microphones, screenshares>>
       /\ (/\ last'.type = "PipeWireNodeRemove"
           /\ Handled(PipeWireNodeRemoveMsg(last'.id))
           /\ last'.id \notin microphones
           /\ last'.id \notin screenshares)
         => UNCHANGED <<microphones, screenshares, cameras, shared>>]_vars

\* the same MicrophoneAdd was processed twice in a row
IdempotentWitness ==
    /\ last.type = "MicrophoneAdd"
    /\ last.prev = "MicrophoneAdd"
    /\ last.id \in microphones

\* C6: a close with no matching open leaves the path's contribution at 0, an
\* open right after it makes it 1, and the scenario open(A), open(B),
\* close(A), reset(B), close(A) is active at a Tick after step 1 and inactive
\* at a Tick after step 5.
UnmatchedCloseAbsorbed ==
    [][/\ (/\ last'.type = "CameraClose"
           /\ Handled(CameraCloseMsg(last'.path))
           /\ Contribution(cameras, last'.path) = 0)
         => /\ last'.path \in DOMAIN cameras'
            /\ Contribution(cameras', last'.path) = 0
       /\ (/\ last'.type = "CameraOpen"
           /\ Handled(CameraOpenMsg(last'.path))
           /\ last.type = "CameraClose"
           /\ last.path = last'.path
           /\ Contribution(cameras, last'.path) = 0)
         => Contribution(cameras', last'.path) = 1
       /\ (Handled(Tick) /\ scen = 1) => shared'.camera
       /\ (Handled(Tick) /\ scen = Len(Script)) => ~shared'.camera]_vars

\* the five-step scenario has run and a Tick followed it
AbsorbedWitness ==
    /\ scen = Len(Script)
    /\ last.type = "Tick"
    /\ cameras["/dev/video0"] = <<-1, -1>>

\* how many closes the baseline run has seen on a path
Closes(path) == IF path = base.path THEN base.k ELSE 0

\* C7: while a path seeded (n, 0) sees closes only, its contribution is n - k
\* after k <= n closes and 0 after more, and a Tick reports the camera
\* active exactly when some seeded path has seen fewer closes than its seed.
BaselineSeeding ==
    base.k >= 0 =>
        /\ \A p \in DOMAIN base.snap :
              /\ p \in DOMAIN cameras
              /\ Contribution(cameras, p) =
                    IF Closes(p) <= base.snap[p][1]
                    THEN base.snap[p][1] - Closes(p) ELSE 0
        /\ last.type = "Tick" =>
              shared.camera =
                 (\E p \in DOMAIN base.snap : Closes(p) < base.snap[p][1])

\* a path seeded (2, 0) has seen three closes and the Tick reports inactive
BaselineWitness ==
    /\ base.k = 3
    /\ base.path \in DOMAIN base.snap
    /\ DOMAIN base.snap = {base.path}
    /\ base.snap[base.path] = <<2, 0>>
    /\ last.type = "Tick"
    /\ ~shared.camera

\* C8: CameraReset(path) removes the path's entry and no other, and a
\* CameraOpen(path) right after it leaves the entry (1, 0).
ResetClearsHistory ==
    [][/\ (last'.type = "CameraReset" /\ Handled(CameraResetMsg(last'.path)))
         => /\ last'.path \notin DOMAIN cameras'
            /\ DOMAIN cameras' = DOMAIN cameras \ {last'.path}
            /\ \A q \in DOMAIN cameras' : cameras'[q] = cameras[q]
       /\ (/\ last'.type = "CameraOpen"
           /\ Handled(CameraOpenMsg(last'.path))
           /\ last.type = "CameraReset"
           /\ last.path = last'.path)
         => cameras'[last'.path] = <<1, 0>>]_vars

\* a path was reset and opened again while the other path kept its debt
ResetWitness ==
    \E p \in Paths, q \in Paths :
        /\ p # q
        /\ last.type = "CameraOpen"
        /\ last.path = p
        /\ last.prev = "CameraReset"
        /\ p \in DOMAIN cameras
        /\ cameras[p] = <<1, 0>>
        /\ q \in DOMAIN cameras
        /\ cameras[q][2] < 0

\* the descriptors processes hold on the devices the watch table covers
WatchedOpen == {p \in DOMAIN wd_path : handles[p] > 0}

\* every camera event produced so far has reached the aggregator
CameraEventsApplied ==
    /\ CamIdle
    /\ batch = <<>>
    /\ inoQ = <<>>
    /\ camChan = <<>>

\* C2: a Tick processed when all camera events are applied and some process
\* holds a watched camera device open publishes camera = TRUE.
NeverFalseInactive ==
    [][(/\ CameraEventsApplied
        /\ WatchedOpen # {}
        /\ TimerTick)
       => shared'.camera]_vars

\* what the last rebuild has to emit for a path
ResetsDue(path) == IF path \in rb.old \ rb.new THEN 1 ELSE 0

\* C9: a rebuild emits exactly one CameraReset for every path of the old
\* watch table that the new one lacks, and none for any other path.
RebuildEmitsResets ==
    /\ rb # NoRebuild => rb.new = DOMAIN wd_path
    /\ \A p \in Paths : rb.sent[p] <= ResetsDue(p)
    /\ (resetTodo = {} /\ camOut.type # "CameraReset")
          => \A p \in Paths : rb.sent[p] = ResetsDue(p)

\* watched {video0, video1} before, {video0} after: one reset, for video1
RebuildWitness ==
    /\ rb.old = Paths
    /\ rb.new = {"/dev/video0"}
    /\ resetTodo = {}
    /\ camOut = NoMsg
    /\ rb.sent["/dev/video1"] = 1
    /\ rb.sent["/dev/video0"] = 0

\* the serial numbers in a channel follow what update has processed, and the
\* message in a try_send loop is the next one
InOrder(chan, out, nsent, nrecv) ==
    /\ \A i \in 1..Len(chan) : chan[i].seq = nrecv + i
    /\ nsent = nrecv + Len(chan) + (IF out = NoMsg THEN 0 ELSE 1)

CloseOnAbsentDecrements ==
    [][(/\ last'.type = "CameraClose"
        /\ Handled(CameraCloseMsg(last'.path))
        /\ last'.path \notin DOMAIN cameras)
       => /\ last'.path \in DOMAIN cameras'
          /\ cameras'[last'.path] = <<-1, -1>>]_vars

\* C12: a rebuild of the watch table takes a fresh baseline and starts
\* sending it as CameraPrevious.
RebuildRescans ==
    [][WatcherRebuild
       => /\ camOut'.type = "CameraPrevious"
          /\ camOut'.cameras = open_cameras]_vars

\* no process holds any camera device open
AllClosed == \A p \in Paths : handles[p] = 0

\* C13: a Tick processed when every camera handle is closed and all camera
\* events are applied publishes camera = FALSE.
NoStuckActive ==
    [][(/\ CameraEventsApplied
        /\ AllClosed
        /\ TimerTick)
       => ~shared'.camera]_vars

\* C16: a camera node created in /dev while the watcher holds its /dev watch
\* queues a notification for the watcher.
CreateObserved ==
    [][(DevAdd /\ inoGen > 0) => Len(inoQ') > Len(inoQ)]_vars

\* an open / close notification of a device the current table watches
IsWatchedOpenClose(event) ==
    /\ event.mask \in {"OPEN", "CLOSE_WRITE", "CLOSE_NOWRITE"}
    /\ \E p \in DOMAIN wd_path : DevId(p) = event.wd.id

\* C17: no open / close notification of a device watched before and after a
\* rebuild is passed over: neither one read in the batch of the event that
\* caused the rebuild, nor one still queued on the discarded instance.
NoEventLostOnRebuild ==
    [][/\ WatcherSkip => ~IsWatchedOpenClose(Head(batch))
       /\ WatcherRebuild =>
            \A i \in 1..Len(inoQ) :
                ~(/\ inoQ[i].mask \in {"OPEN", "CLOSE_WRITE", "CLOSE_NOWRITE"}
                  /\ \E p \in DOMAIN wd_path \cap DOMAIN wd_path' :
                        DevId(p) = inoQ[i].wd.id)]_vars

\* C14: CameraPrevious is the first message of the camera thread and the
\* only one of its kind, it is processed first and once, when the map is
\* still empty, and no other camera message is processed before it.
PreviousFirstAndOnce ==
    /\ [](\A i \in 1..Len(camChan) :
            (camChan[i].msg.type = "CameraPrevious") <=> (camChan[i].seq = 1))
    /\ [](camOut # NoMsg =>
            ((camOut.type = "CameraPrevious") <=> (sent.cam = 1)))
    /\ [](recv.cam = 0 => cameras = NoCameras)
    /\ [][(camChan # <<>> /\ recv'.cam = recv.cam + 1)
          => /\ (Head(camChan).msg.type = "CameraPrevious") <=> (recv.cam = 0)
             /\ recv.cam = 0 => cameras = NoCameras]_vars

\* the baseline (1, 0) was processed first and a live open counted on it
PreviousFirstWitness ==
    /\ recv.cam = 2
    /\ "/dev/video0" \in DOMAIN cameras
    /\ cameras["/dev/video0"] = <<2, 0>>

\* C15: a step that removes a path's entry from the cameras map is update
\* processing CameraReset of that path.
OnlyResetRemoves ==
    [][\A p \in DOMAIN cameras :
          p \notin DOMAIN cameras'
             => /\ camChan # <<>>
                /\ Head(camChan).msg = CameraResetMsg(p)
                /\ camChan' = Tail(camChan)
                /\ DOMAIN cameras' = DOMAIN cameras \ {p}]_vars

\* baseline, one open or close of video0, then its reset: the entry is gone
OnlyResetWitness ==
    /\ recv.cam = 3
    /\ sent.cam = 3
    /\ rb.old = {"/dev/video0"}
    /\ rb.sent["/dev/video0"] = 1
    /\ cameras = NoCameras

\* a PipeWireNodeRemove(id) the thread has started to send is not processed
RemoveInFlight(id) ==
    \/ pwOut = PipeWireNodeRemoveMsg(id)
    \/ \E i \in 1..Len(pwChan) : pwChan[i].msg = PipeWireNodeRemoveMsg(id)

\* the daemon reported `id` with `class` and no remove of it was processed
\* since
ReportedActive(id, class) ==
    \/ id \in DOMAIN globals /\ globals[id] = class
    \/ RemoveInFlight(id)

\* C19: an id is in microphones (screenshares) only if the daemon reported
\* it with class Stream/Input/Audio (Stream/Input/Video) and its remove has
\* not been processed since; processing the remove of an id leaves it in
\* neither set.
ActiveSetInvariant ==
    /\ [](\A id \in microphones : ReportedActive(id, "Stream/Input/Audio"))
    /\ [](\A id \in screenshares : ReportedActive(id, "Stream/Input/Video"))
    /\ [][(/\ pwChan # <<>>
           /\ recv'.pw = recv.pw + 1
           /\ Head(pwChan).msg.type = "PipeWireNodeRemove")
          => /\ Head(pwChan).msg.id \notin microphones'
             /\ Head(pwChan).msg.id \notin screenshares']_vars

\* a node was added and removed and both messages were processed: its id is
\* in neither set
ActiveSetWitness ==
    /\ sent.pw = 2
    /\ recv.pw = 2
    /\ globals = NoGlobals
    /\ microphones = {}
    /\ screenshares = {}

\* the ids a source's sequence leaves in a set: added by a message of
\* `addType` with no PipeWireNodeRemove of the id after it
IdsLeft(seq, addType) ==
    {id \in Ids :
        \E i \in 1..Len(seq) :
            /\ seq[i].type = addType
            /\ seq[i].id = id
            /\ \A j \in (i + 1)..Len(seq) :
                  ~(seq[j].type = "PipeWireNodeRemove" /\ seq[j].id = id)}

\* the ref-count map the first n messages of a camera sequence leave when
\* nothing else is processed between them
RECURSIVE CamerasLeft(_, _)
CamerasLeft(seq, n) ==
    IF n = 0 THEN NoCameras
    ELSE LET cams == CamerasLeft(seq, n - 1)
             message == seq[n]
         IN  CASE message.type = "CameraPrevious" -> message.cameras
               [] message.type = "CameraOpen" -> CameraOpen(cams, message.path)
               [] message.type = "CameraClose" -> CameraClose(cams, message.path)
               [] message.type = "CameraReset" -> CameraReset(cams, message.path)

\* C18: whatever the interleaving of the two sources with each other and
\* with Ticks, the sets and the ref-count map are the ones each source's own
\* sequence leaves, and a Tick after the last message publishes the snapshot
\* of those.
InterleavingIrrelevant ==
    /\ microphones = IdsLeft(pwSeq, "MicrophoneAdd")
    /\ screenshares = IdsLeft(pwSeq, "ScreenShareAdd")
    /\ cameras = CamerasLeft(camSeq, Len(camSeq))
    /\ ticked =>
          shared = [microphone |-> IdsLeft(pwSeq, "MicrophoneAdd") # {},
                    screenshare |-> IdsLeft(pwSeq, "ScreenShareAdd") # {},
                    camera |-> SumOver(CamerasLeft(camSeq, Len(camSeq)),
                                       Paths) > 0]

\* both sources have sent two messages and a Tick followed: the microphone
\* is gone again, the camera is still open
InterleavingWitness ==
    /\ pwSeq = <<MicrophoneAddMsg(1), PipeWireNodeRemoveMsg(1)>>
    /\ camSeq = <<CameraPreviousMsg(NoCameras), CameraOpenMsg("/dev/video0")>>
    /\ ticked
    /\ ~shared.microphone
    /\ shared.camera

\* C20: the aggregator and the one closing an absent path to (-1, -1) hold
\* entries for the same paths with the same contribution count - floor, so
\* a Tick computes the same camera flag from either.
CloseRulesEquivalent ==
    /\ DOMAIN cameras = DOMAIN specCameras
    /\ \A p \in Paths :
          Contribution(cameras, p) = Contribution(specCameras, p)
    /\ (CameraSum(cameras) > 0) = (SumOver(specCameras, Paths) > 0)

\* a path first seen by a close, then opened: (1, 0) here, (0, -1) there
CloseRulesWitness ==
    /\ "/dev/video0" \in DOMAIN cameras
    /\ cameras["/dev/video0"] = <<1, 0>>
    /\ specCameras["/dev/video0"] = <<0, -1>>
    /\ shared.camera

====
